---------------------------- MODULE Spec2Model ----------------------------
(***************************************************************************)
(* Model of the microblog application: the User / Post / followers tables  *)
(* (app/models.py), the view functions that change them (app/routes.py),   *)
(* the registration form validators (app/forms.py) and the 500 handler     *)
(* (app/errors.py).                                                        *)
(*                                                                         *)
(* The database is the triple (users, posts, followers).  A request is     *)
(* handled by a worker: the view function runs against the database up to  *)
(* its db.session.commit(), which is a separate atomic step, so that the   *)
(* requests of two workers can overlap.  The serial specifications let one *)
(* request run at a time; the concurrent ones do not.                      *)
(***************************************************************************)
EXTENDS Integers, Sequences, FiniteSets, TLC

VARIABLES
    users,      \* table user: sequence of rows, row i has primary key i
    posts,      \* table post: sequence of rows, row i has primary key i
    followers,  \* table followers: number of rows per (follower_id, followed_id)
    clock,      \* what datetime.now(timezone.utc) reads
    pending,    \* per worker: the request whose session is not yet committed
    last        \* the response to the request that finished last

vars == <<users, posts, followers, clock, pending, last>>

----------------------------------------------------------------------------
(* Bounds *)

MaxUsers == 3      \* rows the user table can hold
MaxPosts == 2      \* rows the post table can hold
MaxEdges == 2      \* rows the followers table can hold
MaxTime  == 2      \* the clock reads 1..MaxTime

Workers   == {"w1", "w2"}
Usernames == {"alice", "bob", "carol", "dave"}   \* the <username> of a URL
RegNames  == {"alice", "bob"}                    \* usernames a form submits
RegEmails == {"a@x.org", "b@x.org"}              \* emails a form submits
Passwords == {"pw1", "pw2"}
Salts     == {"s1", "s2"}
Bodies    == {"hi"}

Times   == 1..MaxTime
Ids     == 1..MaxUsers
Pairs   == Ids \X Ids
None    == 0           \* Python None where a row or an id is expected
NoWorker == "none"

----------------------------------------------------------------------------
(* Tables and queries *)

UserIds == 1..Len(users)
PostIds == 1..Len(posts)

\* werkzeug's salted one-way hash, as an uninterpreted injective digest
DigestOf(salt, pwd) == <<"digest", salt, pwd>>

generate_password_hash(pwd, salt) == [salt |-> salt, digest |-> DigestOf(salt, pwd)]

\* mutant of check_password_hash: only the salt is compared
check_password_hash_salt_only(pwhash, pwd) ==
    \E x \in Passwords : pwhash.digest = DigestOf(pwhash.salt, x)

check_password_hash(pwhash, pwd) == pwhash.digest = DigestOf(pwhash.salt, pwd)

\* User.set_password: the row with its pwd_hash replaced
set_password(row, pwd, salt) == [row EXCEPT !.pwd_hash = generate_password_hash(pwd, salt)]

\* User.check_password
check_password(row, pwd) == check_password_hash(row.pwd_hash, pwd)

\* mutant of user_by_username: the where clause is lost
user_by_username_first(tbl, name) == IF Len(tbl) > 0 THEN 1 ELSE None

\* db.session.scalar(select(User).where(User.username == name)): first row or None
user_by_username(tbl, name) ==
    IF \E i \in 1..Len(tbl) : tbl[i].username = name
    THEN CHOOSE i \in 1..Len(tbl) :
            /\ tbl[i].username = name
            /\ \A j \in 1..Len(tbl) : tbl[j].username = name => i <= j
    ELSE None

\* db.session.scalar(select(User).where(User.email == email)): first row or None
user_by_email(tbl, email) ==
    IF \E i \in 1..Len(tbl) : tbl[i].email = email
    THEN CHOOSE i \in 1..Len(tbl) :
            /\ tbl[i].email = email
            /\ \A j \in 1..Len(tbl) : tbl[j].email = email => i <= j
    ELSE None

RECURSIVE SumOver(_, _)
SumOver(f, S) ==
    IF S = {} THEN 0
    ELSE LET e == CHOOSE x \in S : TRUE IN f[e] + SumOver(f, S \ {e})

\* number of rows of the followers table
EdgeRows(f) == SumOver(f, Pairs)

\* User.is_following: self.following.select().where(User.id == user.id) has a row
is_following(f, self, user) == f[<<self, user>>] > 0

\* mutant of followers_count: the count runs over the following relationship
followers_count_swapped(f, self) == SumOver(f, {e \in Pairs : e[1] = self})

\* User.followers_count: count(*) over the rows whose followed_id is self
followers_count(f, self) == SumOver(f, {e \in Pairs : e[2] = self})

\* User.following_count: count(*) over the rows whose follower_id is self
following_count(f, self) == SumOver(f, {e \in Pairs : e[1] = self})


----------------------------------------------------------------------------
(* The session's unit of work and db.session.commit() *)

NoOp               == [op |-> "none", row |-> None]
InsertFollowers(r) == [op |-> "insert_followers", row |-> r]
DeleteFollowers(r) == [op |-> "delete_followers", row |-> r]
InsertUser(r)      == [op |-> "insert_user", row |-> r]
InsertPost(r)      == [op |-> "insert_post", row |-> r]
UpdateUser(r)      == [op |-> "update_user", row |-> r]

Committed(u, p, f)  == [ok |-> TRUE, users |-> u, posts |-> p, followers |-> f]
RolledBack(u, p, f) == [ok |-> FALSE, users |-> u, posts |-> p, followers |-> f]

\* followers: both columns are the primary key, so a second row for a pair
\* is an IntegrityError
followers_insert(u, p, f, r) ==
    IF f[r] > 0
    THEN {RolledBack(u, p, f)}
    ELSE {Committed(u, p, [f EXCEPT ![r] = @ + 1])}

\* the DELETE of a row that is gone matches no row: the unit of work
\* either lets it pass or raises StaleDataError, by the dialect's rowcount
followers_delete(u, p, f, r) ==
    IF f[r] = 0
    THEN {Committed(u, p, f), RolledBack(u, p, f)}
    ELSE {Committed(u, p, [f EXCEPT ![r] = @ - 1])}

\* mutant of user_insert: the columns are not declared unique
user_insert_not_unique(u, p, f, r, now) ==
    {Committed(Append(u, [r EXCEPT !.id = Len(u) + 1, !.last_seen = now]), p, f)}

\* user: username and email are unique=True; id is the next primary key;
\* last_seen takes its default, a reading of the clock, at the INSERT
user_insert(u, p, f, r, now) ==
    IF \/ user_by_username(u, r.username) # None
       \/ user_by_email(u, r.email) # None
    THEN {RolledBack(u, p, f)}
    ELSE {Committed(Append(u, [r EXCEPT !.id = Len(u) + 1, !.last_seen = now]), p, f)}

\* the UPDATE of the dirty attributes of one user row; username is unique=True
user_update(u, p, f, r) ==
    IF \E i \in DOMAIN u : i # r.id /\ u[i].username = r.username
    THEN {RolledBack(u, p, f)}
    ELSE {Committed([u EXCEPT ![r.id].username = r.username,
                              ![r.id].about_me = r.about_me], p, f)}

\* post: id is the next primary key; timestamp takes its default at the INSERT
post_insert(u, p, f, r, now) ==
    {Committed(u, Append(p, [r EXCEPT !.id = Len(p) + 1, !.timestamp = now]), f)}

\* db.session.commit(): the outcomes of flushing the unit of work uow into the
\* tables; a failed flush leaves the tables as they were (errors.internal_error
\* rolls the session back)
commit(u, p, f, uow, now) ==
    CASE uow.op = "none"             -> {Committed(u, p, f)}
      [] uow.op = "insert_followers" -> followers_insert(u, p, f, uow.row)
      [] uow.op = "delete_followers" -> followers_delete(u, p, f, uow.row)
      [] uow.op = "insert_user"      -> user_insert(u, p, f, uow.row, now)
      [] uow.op = "insert_post"      -> post_insert(u, p, f, uow.row, now)
      [] uow.op = "update_user"      -> user_update(u, p, f, uow.row)

----------------------------------------------------------------------------
(* models.User: follow / unfollow *)

\* mutant of User_follow: the add is not guarded by is_following
User_follow_unguarded(f, self, user) == InsertFollowers(<<self, user>>)

\* User.follow: self.following.add(user) unless self already follows user
User_follow(f, self, user) ==
    IF ~is_following(f, self, user) THEN InsertFollowers(<<self, user>>) ELSE NoOp

\* mutant of User_unfollow: the row of the reverse relationship is removed
User_unfollow_reversed(f, self, user) ==
    IF is_following(f, self, user) THEN DeleteFollowers(<<user, self>>) ELSE NoOp

\* mutant of User_unfollow: the remove is not guarded by is_following
User_unfollow_unguarded(f, self, user) == DeleteFollowers(<<self, user>>)

\* User.unfollow: self.following.remove(user) if self follows user
User_unfollow(f, self, user) ==
    IF is_following(f, self, user) THEN DeleteFollowers(<<self, user>>) ELSE NoOp

----------------------------------------------------------------------------
(* routes: what a view function does up to its db.session.commit() *)

\* A view's outcome: where it ends if it does not commit or the commit passes
\* (status), whether it calls db.session.commit(), the unit of work it has
\* built, the messages flashed before and after the commit, the User row the
\* request names, the posts it renders, the user login_user() is called
\* with and the form data submitted.
NoForm == [username |-> "", email |-> "", pwd |-> "", about_me |-> ""]

View(route, cu, target, status, commits, uow, pre, post) ==
    [route |-> route, cu |-> cu, target |-> target, status |-> status,
     commits |-> commits, uow |-> uow, pre |-> pre, post |-> post,
     posts |-> <<>>, logged_in |-> None, form |-> NoForm]

NoCommit(route, cu, target, status, pre) ==
    View(route, cu, target, status, FALSE, NoOp, pre, <<>>)

\* the <username> of the URL, once the view has looked it up
Named(username) == [username |-> username, email |-> "", pwd |-> "", about_me |-> ""]

\* flask_login.login_required: an anonymous request is sent to the login view
LoginRequired(route) == NoCommit(route, None, None, "redirect:login", <<>>)

\* routes.before_request: last_seen of the authenticated user, committed
before_request(u, cu, now) ==
    IF cu # None THEN [u EXCEPT ![cu].last_seen = now] ELSE u

\* routes.follow (valid: what form.validate_on_submit() answers for the
\* EmptyForm of the request)
follow(u, f, cu, username, valid) ==
    IF cu = None THEN LoginRequired("follow")
    ELSE IF ~valid THEN NoCommit("follow", cu, None, "redirect:index", <<>>)
    ELSE LET user == user_by_username(u, username) IN
         IF user = None
         THEN [NoCommit("follow", cu, None, "redirect:index", <<"User not found.">>)
               EXCEPT !.form = Named(username)]
         ELSE [View("follow", cu, user, "redirect:user", TRUE,
                    User_follow(f, cu, user),
                    IF user = cu THEN <<"Youn cannot follow yourself!">> ELSE <<>>,
                    <<"Now following!">>)
               EXCEPT !.form = Named(username)]

\* routes.unfollow
unfollow(u, f, cu, username, valid) ==
    IF cu = None THEN LoginRequired("unfollow")
    ELSE IF ~valid THEN NoCommit("unfollow", cu, None, "redirect:index", <<>>)
    ELSE LET user == user_by_username(u, username) IN
         IF user = None
         THEN [NoCommit("unfollow", cu, None, "redirect:index", <<"User not found.">>)
               EXCEPT !.form = Named(username)]
         ELSE IF user = cu
         THEN [NoCommit("unfollow", cu, user, "redirect:user",
                        <<"You cannot unfollow yourself!">>)
               EXCEPT !.form = Named(username)]
         ELSE [View("unfollow", cu, user, "redirect:user", TRUE,
                    User_unfollow(f, cu, user), <<>>, <<"You are not following.">>)
               EXCEPT !.form = Named(username)]

----------------------------------------------------------------------------
(* models.User.following_posts: the timeline query *)

Null == 0     \* the NULL an outer join fills in

\* mutant of JoinRows: the join with the followers is an inner join
JoinRows_inner(u, p, f) ==
    {<<i, p[i].user_id, xk[1], xk[2]>> :
        <<i, xk>> \in {ixk \in (1..Len(p)) \X ((1..Len(u)) \X (1..MaxEdges + 1)) :
                         ixk[2][2] <= f[<<ixk[2][1], p[ixk[1]].user_id>>]}}

\* select(Post).join(Post.author.of_type(Author))
\*             .join(Author.followers.of_type(Follower), isouter=True):
\* one row <<post, author, follower, k>> per post and followers row of its
\* author (k numbers the copies of that row), one row with a NULL follower
\* for a post whose author has no follower
JoinRows(u, p, f) ==
    UNION { LET a == p[i].user_id
                matched == {<<i, a, x, k>> : <<x, k>> \in
                               {xk \in (1..Len(u)) \X (1..MaxEdges + 1) :
                                   xk[2] <= f[<<xk[1], a>>]}}
            IN  IF matched = {} THEN {<<i, a, Null, 1>>} ELSE matched
          : i \in {j \in 1..Len(p) : p[j].user_id \in 1..Len(u)} }

\* mutant of WhereRows: the posts of every author who has a follower pass
WhereRows_any_follower(rows, self) == {r \in rows : r[3] # Null \/ r[2] = self}

\* .where(or_(Follower.id == self.id, Author.id == self.id))
WhereRows(rows, self) == {r \in rows : r[3] = self \/ r[2] = self}

\* mutant of GroupByPost: the rows are not grouped
GroupByPost_ungrouped(rows) == {<<r[1], <<r[3], r[4]>>>> : r \in rows}

\* .group_by(Post): one result row per post
GroupByPost(rows) == {<<r[1], 0>> : r \in rows}

\* mutant of FirstByTimestampDesc: ascending
FirstByTimestampAsc(p, rows) ==
    {r \in rows : \A x \in rows : p[r[1]].timestamp <= p[x[1]].timestamp}

\* the rows that sort first under Post.timestamp.desc()
FirstByTimestampDesc(p, rows) ==
    {r \in rows : \A x \in rows : p[r[1]].timestamp >= p[x[1]].timestamp}

\* .order_by(Post.timestamp.desc()): the result rows, a first row at a time;
\* the order among rows of equal timestamp is the engine's, so every such
\* order is an answer
RECURSIVE OrderByTimestampDesc(_, _)
OrderByTimestampDesc(p, rows) ==
    IF rows = {} THEN {<<>>}
    ELSE UNION { {<<r>> \o s : s \in OrderByTimestampDesc(p, rows \ {r})} :
                 r \in FirstByTimestampDesc(p, rows) }

\* db.session.scalars(self.following_posts()).all(): the lists of post ids
\* the query can answer
following_posts(u, p, f, self) ==
    {[i \in DOMAIN s |-> s[i][1]] :
        s \in OrderByTimestampDesc(p, GroupByPost(WhereRows(JoinRows(u, p, f), self)))}

\* routes.index: a valid POST adds a post, anything else renders the timeline
\* (shown: the list the query answered)
index(u, p, f, cu, submitted, body, shown) ==
    IF cu = None THEN LoginRequired("index")
    ELSE IF submitted
    THEN View("index", cu, None, "redirect:index", TRUE,
              InsertPost([id |-> None, body |-> body, timestamp |-> None, user_id |-> cu]),
              <<>>, <<"Your post is now live!">>)
    ELSE [NoCommit("index", cu, None, "render:index", <<>>) EXCEPT !.posts = shown]

----------------------------------------------------------------------------
(* routes.register, routes.login, routes.logout and forms.RegistrationForm *)

\* User(username=..., email=...)
NewUser(username, email) ==
    [id |-> None, username |-> username, email |-> email, pwd_hash |-> None,
     about_me |-> None, last_seen |-> None]

\* RegistrationForm.validate_username: no row has the username
validate_username(u, username) == user_by_username(u, username) = None

\* RegistrationForm.validate_email: no row has the email
validate_email(u, email) == user_by_email(u, email) = None

\* RegistrationForm: EqualTo('pwd') and the two custom validators
RegistrationForm_validate(u, username, email, pwd, pwd2) ==
    /\ pwd2 = pwd
    /\ validate_username(u, username)
    /\ validate_email(u, email)

\* routes.register
register(u, cu, username, email, pwd, pwd2, salt) ==
    IF cu # None THEN NoCommit("register", cu, None, "redirect:index", <<>>)
    ELSE IF RegistrationForm_validate(u, username, email, pwd, pwd2)
    THEN [View("register", None, None, "redirect:login", TRUE,
               InsertUser(set_password(NewUser(username, email), pwd, salt)),
               <<>>, <<"Congratulations, you are now a registered user!">>)
          EXCEPT !.form = [username |-> username, email |-> email, pwd |-> pwd,
                          about_me |-> ""]]
    ELSE [NoCommit("register", None, None, "render:register", <<>>)
          EXCEPT !.form = [username |-> username, email |-> email, pwd |-> pwd,
                          about_me |-> ""]]

\* the user the login view logs in: the row of that exact username, if its
\* password checks; None otherwise
verify_credentials(u, username, pwd) ==
    LET user == user_by_username(u, username) IN
    IF user = None \/ ~check_password(u[user], pwd) THEN None ELSE user

\* routes.login
login(u, cu, username, pwd) ==
    IF cu # None THEN NoCommit("login", cu, None, "redirect:index", <<>>)
    ELSE LET user == verify_credentials(u, username, pwd) IN
         IF user = None
         THEN [NoCommit("login", None, None, "redirect:login",
                        <<"Invalid username or password">>)
               EXCEPT !.form = [username |-> username, email |-> "", pwd |-> pwd,
                          about_me |-> ""]]
         ELSE [NoCommit("login", None, user, "redirect:next", <<>>)
               EXCEPT !.logged_in = user,
                      !.form = [username |-> username, email |-> "", pwd |-> pwd,
                          about_me |-> ""]]

\* routes.logout
logout(cu) == NoCommit("logout", cu, None, "redirect:index", <<>>)

----------------------------------------------------------------------------
(* routes.edit_profile and forms.EditProfileForm *)

\* the texts submitted as about_me, and the number of characters of each
AboutTexts == {"bio", "x141"}
TextLen(a) == CASE a = "bio" -> 3 [] a = "x141" -> 141 [] OTHER -> 0

\* Length(min=0, max=140) of EditProfileForm.about_me
AboutMeMax == 140

\* mutant of EditProfileForm_validate_username: no lookup of the new name
EditProfileForm_validate_username_no_lookup(u, original_username, username) == TRUE

\* EditProfileForm.validate_username: a username other than the original
\* one must belong to no row
EditProfileForm_validate_username(u, original_username, username) ==
    username # original_username => user_by_username(u, username) = None

\* EditProfileForm: DataRequired() on username, Length(min=0, max=140) on
\* about_me and the custom validator
EditProfileForm_validate(u, original_username, username, about_me) ==
    /\ username # ""
    /\ TextLen(about_me) <= AboutMeMax
    /\ EditProfileForm_validate_username(u, original_username, username)

\* routes.edit_profile (submitted: the request is a POST of the form; a GET
\* renders the form filled with the current values)
edit_profile(u, cu, submitted, username, about_me) ==
    IF cu = None THEN LoginRequired("edit_profile")
    ELSE IF ~submitted
    THEN NoCommit("edit_profile", cu, None, "render:edit_profile", <<>>)
    ELSE IF EditProfileForm_validate(u, u[cu].username, username, about_me)
    THEN [View("edit_profile", cu, None, "redirect:edit_profile", TRUE,
               UpdateUser([id |-> cu, username |-> username,
                           about_me |-> about_me]),
               <<>>, <<"Your changes have been saved.">>)
          EXCEPT !.form = [NoForm EXCEPT !.username = username,
                                         !.about_me = about_me]]
    ELSE [NoCommit("edit_profile", cu, None, "render:edit_profile", <<>>)
          EXCEPT !.form = [NoForm EXCEPT !.username = username,
                                         !.about_me = about_me]]

----------------------------------------------------------------------------
(* Requests *)

Idle == NoCommit("idle", None, None, "", <<>>)

AllIdle == \A w \in Workers : pending[w].route = "idle"

\* the response of a view that ran to its end (op: what its unit of work held)
Finished(w, v) ==
    [worker |-> w, route |-> v.route, cu |-> v.cu, target |-> v.target,
     status |-> v.status, flashes |-> v.pre \o v.post, posts |-> v.posts,
     logged_in |-> v.logged_in, form |-> v.form, op |-> v.uow.op]

\* errors.internal_error: the response to an exception raised by the commit
internal_error(w, v) ==
    [worker |-> w, route |-> v.route, cu |-> v.cu, target |-> v.target,
     status |-> "500", flashes |-> v.pre, posts |-> <<>>, logged_in |-> None,
     form |-> v.form, op |-> v.uow.op]

\* a whole request by worker w: before_request has left the user table u1,
\* the view has come to v, and db.session.commit() follows at once
Handle(w, u1, v) ==
    /\ AllIdle
    /\ UNCHANGED <<pending, clock>>
    /\ IF v.commits
       THEN \E r \in commit(u1, posts, followers, v.uow, clock) :
               /\ users' = r.users
               /\ posts' = r.posts
               /\ followers' = r.followers
               /\ last' = IF r.ok THEN Finished(w, v) ELSE internal_error(w, v)
       ELSE /\ users' = u1
            /\ UNCHANGED <<posts, followers>>
            /\ last' = Finished(w, v)

\* the first part of a request by worker w, up to db.session.commit()
Begin(w, u1, v) ==
    /\ pending[w].route = "idle"
    /\ users' = u1
    /\ UNCHANGED <<posts, followers, clock>>
    /\ IF v.commits
       THEN pending' = [pending EXCEPT ![w] = v] /\ UNCHANGED last
       ELSE UNCHANGED pending /\ last' = Finished(w, v)

\* db.session.commit() of the request worker w is handling
Commit(w) ==
    /\ pending[w].route # "idle"
    /\ \E r \in commit(users, posts, followers, pending[w].uow, clock) :
          /\ users' = r.users
          /\ posts' = r.posts
          /\ followers' = r.followers
          /\ last' = IF r.ok THEN Finished(w, pending[w]) ELSE internal_error(w, pending[w])
    /\ pending' = [pending EXCEPT ![w] = Idle]
    /\ UNCHANGED clock

\* time passes
Tick ==
    /\ clock < MaxTime
    /\ clock' = clock + 1
    /\ UNCHANGED <<users, posts, followers, pending, last>>

Actors == UserIds \cup {None}    \* current_user: a User row or anonymous

\* POST /follow/<username>
Follow(w) ==
    /\ EdgeRows(followers) < MaxEdges
    /\ \E cu \in Actors, username \in Usernames, valid \in BOOLEAN :
          Handle(w, before_request(users, cu, clock),
                 follow(before_request(users, cu, clock), followers, cu, username, valid))

\* POST /unfollow/<username>
Unfollow(w) ==
    \E cu \in Actors, username \in Usernames, valid \in BOOLEAN :
        Handle(w, before_request(users, cu, clock),
               unfollow(before_request(users, cu, clock), followers, cu, username, valid))

\* GET or POST /index
Index(w) ==
    \E cu \in Actors, submitted \in BOOLEAN, body \in Bodies :
        /\ submitted => Len(posts) < MaxPosts
        /\ \E shown \in (IF cu = None THEN {<<>>}
                         ELSE following_posts(users, posts, followers, cu)) :
              Handle(w, before_request(users, cu, clock),
                     index(before_request(users, cu, clock), posts, followers,
                           cu, submitted, body, shown))

\* GET or POST /register
Register(w) ==
    \E cu \in Actors, username \in RegNames, email \in RegEmails,
       pwd \in Passwords, pwd2 \in Passwords, salt \in Salts :
        Handle(w, before_request(users, cu, clock),
               register(before_request(users, cu, clock), cu, username, email,
                        pwd, pwd2, salt))

\* POST /login
Login(w) ==
    \E cu \in Actors, username \in RegNames, pwd \in Passwords :
        Handle(w, before_request(users, cu, clock),
               login(before_request(users, cu, clock), cu, username, pwd))

\* GET /logout
Logout(w) ==
    \E cu \in Actors :
        Handle(w, before_request(users, cu, clock), logout(cu))

\* the usernames a profile is edited to
EditNames == RegNames \cup {"carol"}

\* GET or POST /edit_profile
EditProfile(w) ==
    \E cu \in Actors, submitted \in BOOLEAN, username \in EditNames,
       about_me \in AboutTexts :
        Handle(w, before_request(users, cu, clock),
               edit_profile(before_request(users, cu, clock), cu, submitted,
                            username, about_me))

\* POST /follow/<username>, up to the commit
FollowBegin(w) ==
    /\ EdgeRows(followers) < MaxEdges
    /\ \E cu \in Actors, username \in Usernames, valid \in BOOLEAN :
          Begin(w, before_request(users, cu, clock),
                follow(before_request(users, cu, clock), followers, cu, username, valid))

\* POST /register, up to the commit
RegisterBegin(w) ==
    \E cu \in Actors, username \in RegNames, email \in RegEmails,
       pwd \in Passwords, pwd2 \in Passwords, salt \in Salts :
        Begin(w, before_request(users, cu, clock),
              register(before_request(users, cu, clock), cu, username, email,
                       pwd, pwd2, salt))

----------------------------------------------------------------------------
(* Specifications *)

NoLast == [worker |-> NoWorker, route |-> "none", cu |-> None, target |-> None,
           status |-> "", flashes |-> <<>>, posts |-> <<>>, logged_in |-> None,
           form |-> NoForm, op |-> "none"]

\* alice, bob and carol have registered
Registered ==
    << [set_password(NewUser("alice", "a@x.org"), "pw1", "s1") EXCEPT !.id = 1, !.last_seen = 1],
       [set_password(NewUser("bob", "b@x.org"), "pw2", "s1") EXCEPT !.id = 2, !.last_seen = 1],
       [set_password(NewUser("carol", "c@x.org"), "pw1", "s2") EXCEPT !.id = 3, !.last_seen = 1] >>

InitSocial ==
    /\ users = Registered
    /\ posts = <<>>
    /\ followers = [e \in Pairs |-> 0]
    /\ clock = 1
    /\ pending = [w \in Workers |-> Idle]
    /\ last = NoLast

\* the database as created: no rows
InitEmpty ==
    /\ users = <<>>
    /\ posts = <<>>
    /\ followers = [e \in Pairs |-> 0]
    /\ clock = 1
    /\ pending = [w \in Workers |-> Idle]
    /\ last = NoLast

\* one request at a time: the follow graph
NextGraph == Tick \/ \E w \in {"w1"} : Follow(w) \/ Unfollow(w)

SpecGraph == InitSocial /\ [][NextGraph]_vars

\* one request at a time: the follow graph and the timeline
NextSocial == Tick \/ \E w \in {"w1"} : Follow(w) \/ Unfollow(w) \/ Index(w)

SpecSocial == InitSocial /\ [][NextSocial]_vars

\* overlapping follow requests
NextRace == \E w \in Workers : FollowBegin(w) \/ Commit(w)

SpecRace == InitSocial /\ [][NextRace]_vars

\* one request at a time: registration and login
NextAuth == Tick \/ \E w \in {"w1"} : Register(w) \/ Login(w) \/ Logout(w)

SpecAuth == InitEmpty /\ [][NextAuth]_vars

\* one request at a time: registration and the profile editor
NextProfile == Tick \/ \E w \in {"w1"} : Register(w) \/ EditProfile(w)

SpecProfile == InitEmpty /\ [][NextProfile]_vars

\* overlapping registrations
NextRegRace == \E w \in Workers : RegisterBegin(w) \/ Commit(w)

SpecRegRace == InitEmpty /\ [][NextRegRace]_vars

----------------------------------------------------------------------------
(* Properties of the follow graph *)

\* the request that finished last is a follow / unfollow that reached its
\* redirect to the user page after calling User.follow / User.unfollow
FollowDone   == last.route = "follow" /\ last.status = "redirect:user"
UnfollowDone ==
    last.route = "unfollow" /\ last.status = "redirect:user" /\ last.cu # last.target

\* C1: a follow request whose follower and target are the same user creates
\* no (A, A) row and leaves following_count(A) and followers_count(A) as
\* they were.
C1_SelfFollowRejected ==
    [][ (last'.route = "follow" /\ last'.target # None /\ last'.target = last'.cu)
        => /\ ~is_following(followers', last'.cu, last'.cu)
           /\ following_count(followers', last'.cu) = following_count(followers, last'.cu)
           /\ followers_count(followers', last'.cu) = followers_count(followers, last'.cu)
      ]_vars

\* a follow(A, B), A # B, that comes right after a follow(A, B) succeeds and
\* leaves the followers and post tables as they are
C2_SecondFollowStep ==
    (/\ FollowDone /\ last.cu # last.target
     /\ last'.route = "follow" /\ last'.cu = last.cu /\ last'.target = last.target)
    => /\ last'.status = "redirect:user"
       /\ followers' = followers
       /\ posts' = posts

\* a follow(A, B), A # B, of a pair without a row succeeds and adds one to
\* followers_count(B)
C2_FirstFollowStep ==
    (/\ clock' = clock
     /\ last'.route = "follow" /\ last'.target # None /\ last'.target # last'.cu
     /\ ~is_following(followers, last'.cu, last'.target))
    => /\ last'.status = "redirect:user"
       /\ followers_count(followers', last'.target)
             = followers_count(followers, last'.target) + 1

\* C2: follow is idempotent.  For distinct users A and B, a follow(A, B)
\* right after a follow(A, B) leaves the state the first one left, so
\* followers_count(B) goes up by exactly 1; and after any sequence of follow
\* and unfollow requests the followers table holds at most one row per
\* ordered pair.
C2_FollowIdempotent ==
    /\ [](\A e \in Pairs : followers[e] <= 1)
    /\ [][C2_SecondFollowStep /\ C2_FirstFollowStep]_vars

\* a follow(A, B) that found the row already there has succeeded
C2_Witness ==
    /\ FollowDone /\ last.cu # last.target /\ last.op = "none"
    /\ followers_count(followers, last.target) = 1

\* C3: two overlapping follow(A, B) requests (A # B) end with one (A, B)
\* row, and neither ends in the 500 response.
C3_RaceNoHardFailure ==
    /\ \A e \in Pairs : followers[e] <= 1
    /\ ~(last.route = "follow" /\ last.cu # last.target /\ last.status = "500")

\* C6: after follow(A, B), is_following(A, B); after unfollow(A, B), not
\* is_following(A, B).  Stated of the request that finished last, and of
\* User.follow / User.unfollow committed from any reachable state for any
\* two users.
C6_FollowThenIsFollowing ==
    /\ FollowDone => is_following(followers, last.cu, last.target)
    /\ UnfollowDone => ~is_following(followers, last.cu, last.target)
    /\ \A a, b \in UserIds :
          /\ \A r \in commit(users, posts, followers, User_follow(followers, a, b), clock) :
                r.ok /\ is_following(r.followers, a, b)
          /\ \A r \in commit(users, posts, followers, User_unfollow(followers, a, b), clock) :
                r.ok /\ ~is_following(r.followers, a, b)

\* an unfollow that removed a row has finished
C6_Witness == UnfollowDone /\ last.op = "delete_followers"

\* C10: followers_count(U) is the number of users X with is_following(X, U),
\* following_count(U) the number of users Y with is_following(U, Y).
C10_CountsMatchGraph ==
    \A u \in UserIds :
        /\ followers_count(followers, u)
              = Cardinality({x \in UserIds : is_following(followers, x, u)})
        /\ following_count(followers, u)
              = Cardinality({y \in UserIds : is_following(followers, u, y)})

\* alice has followed bob: followers_count(bob) = 1, following_count(alice) = 1
C10_Witness ==
    /\ FollowDone /\ last.cu = 1 /\ last.target = 2
    /\ followers_count(followers, 2) = 1
    /\ following_count(followers, 1) = 1
    /\ followers_count(followers, 1) = 0

\* a request by a logged-in user has just finished (not a tick of the clock)
RequestStep == clock' = clock /\ last'.cu # None

\* the view and its commit left the tables as before_request left them
TablesKept ==
    /\ followers' = followers
    /\ posts' = posts
    /\ users' = before_request(users, last'.cu, clock)

\* an unfollow(A, B), A # B, of a pair without a row
UnfollowOfNoEdge ==
    /\ RequestStep
    /\ last'.route = "unfollow" /\ last'.target # None /\ last'.target # last'.cu
    /\ ~is_following(followers, last'.cu, last'.target)

\* C11 as stated: unfollow(A, B) when A does not follow B raises no error
\* and leaves every followers row, every user and every post unchanged.
C11_UnfollowNoEdgeKeepsAll ==
    [][ UnfollowOfNoEdge
        => /\ last'.status = "redirect:user"
           /\ followers' = followers /\ posts' = posts /\ users' = users
      ]_vars

\* C11, amended: unfollow(A, B) when A does not follow B raises no error
\* and leaves every followers row (a B-follows-A row too), every post and
\* every user unchanged, apart from last_seen of A, which before_request
\* sets to the time of the request.
C11_UnfollowNoEdgeNoOp ==
    [][ UnfollowOfNoEdge
        => /\ last'.status = "redirect:user"
           /\ last'.op = "none"
           /\ TablesKept
           /\ \A i \in UserIds :
                 /\ i # last'.cu => users'[i] = users[i]
                 /\ users'[i] = [users[i] EXCEPT !.last_seen = users'[i].last_seen]
      ]_vars

\* an unfollow(A, B) without an (A, B) row has finished; B follows A
C11_Witness ==
    /\ UnfollowDone /\ last.op = "none"
    /\ is_following(followers, last.target, last.cu)
    /\ ~is_following(followers, last.cu, last.target)

\* C13: a follow or unfollow request naming a username no user has ends in
\* the not-found outcome (the "User not found." flash and the redirect to
\* the index) and changes no followers row, user or post, apart from
\* last_seen of the requester.
C13_UnknownUsernameNotFound ==
    [][ (/\ RequestStep
         /\ last'.route \in {"follow", "unfollow"}
         /\ last'.form.username # ""
         /\ \A i \in UserIds : users[i].username # last'.form.username)
        => /\ last'.flashes = <<"User not found.">>
           /\ last'.status = "redirect:index"
           /\ last'.target = None
           /\ TablesKept
           /\ \A i \in UserIds :
                 /\ i # last'.cu => users'[i] = users[i]
                 /\ users'[i] = [users[i] EXCEPT !.last_seen = users'[i].last_seen]
      ]_vars

\* a request naming dave has been answered, and the requester's last_seen
\* is the time of the request
C13_Witness ==
    /\ last.route \in {"follow", "unfollow"}
    /\ last.form.username = "dave"
    /\ last.flashes = <<"User not found.">>
    /\ users[last.cu].last_seen = 2

----------------------------------------------------------------------------
(* Properties of the timeline *)

Range(s) == {s[i] : i \in DOMAIN s}

\* the posts whose author is user u or a user u follows
VisibleTo(u) ==
    {i \in PostIds : posts[i].user_id = u \/ is_following(followers, u, posts[i].user_id)}

\* the request that finished last rendered a timeline
IndexShown == last.route = "index" /\ last.status = "render:index"

C8_TimelineOrdered ==
    /\ \A a \in UserIds :
          \A s \in following_posts(users, posts, followers, a) :
              \A i, j \in DOMAIN s :
                  i < j => posts[s[i]].timestamp >= posts[s[j]].timestamp
    /\ IndexShown =>
          \A i, j \in DOMAIN last.posts :
              i < j => posts[last.posts[i]].timestamp >= posts[last.posts[j]].timestamp

\* a rendered timeline shows a later post before an earlier one
C8_Witness ==
    /\ IndexShown
    /\ Len(last.posts) = 2
    /\ posts[last.posts[1]].timestamp > posts[last.posts[2]].timestamp

\* C12: no post appears more than once in timeline(U), also when the
\* post's author has several followers and when U wrote the post and follows
\* its author.
C12_TimelineNoDuplicates ==
    /\ \A u \in UserIds :
          \A s \in following_posts(users, posts, followers, u) :
              \A i, j \in DOMAIN s : i # j => s[i] # s[j]
    /\ IndexShown =>
          \A i, j \in DOMAIN last.posts : i # j => last.posts[i] # last.posts[j]

\* a user with two followers, one of them the user, is shown their own post
C12_Witness ==
    /\ IndexShown
    /\ followers_count(followers, last.cu) = 2
    /\ is_following(followers, last.cu, last.cu)
    /\ \E k \in DOMAIN last.posts : posts[last.posts[k]].user_id = last.cu

----------------------------------------------------------------------------
(* Properties of registration and login *)

\* the request that finished last is a registration that created its row
RegisterDone == last.route = "register" /\ last.status = "redirect:login"

Taken(u, form) ==
    \/ \E i \in 1..Len(u) : u[i].username = form.username
    \/ \E i \in 1..Len(u) : u[i].email = form.email

\* no two User rows share a username or an email
C5_UniqueRows ==
    \A i, j \in UserIds :
        i # j => users[i].username # users[j].username /\ users[i].email # users[j].email

\* a register request whose username or email is taken fails, and the user
\* table stays as it was
C5_TakenFailsStep ==
    (/\ last' # last /\ last'.route = "register" /\ last'.cu = None
     /\ Taken(users, last'.form))
    => /\ last'.status \in {"render:register", "500"}
       /\ users' = users

\* a register request that fails leaves the user table as it was
C5_FailedKeepsStep ==
    (last' # last /\ last'.route = "register" /\ last'.cu = None
       /\ last'.status \in {"render:register", "500"})
    => users' = users

\* C5: under any interleaving of register requests no two User rows share a
\* username or an email, and a register request whose username or email is
\* taken fails and leaves the user table as it was (no partial row).
C5_RegistrationUnique ==
    /\ []C5_UniqueRows
    /\ [][C5_TakenFailsStep /\ C5_FailedKeepsStep]_vars

\* a registration that passed the form's validators was stopped at the
\* commit by the other one's row
C5_Witness ==
    /\ last.route = "register" /\ last.status = "500"
    /\ Len(users) >= 1
    /\ Taken(users, last.form)

\* C9: after a successful registration, the login lookup with the same
\* username and password gives the created user, and none with another
\* password; it gives none for a username no row has.
C9_RegisterThenVerify ==
    /\ RegisterDone =>
          /\ verify_credentials(users, last.form.username, last.form.pwd) # None
          /\ LET user == verify_credentials(users, last.form.username, last.form.pwd) IN
                /\ user = Len(users)
                /\ users[user].username = last.form.username
                /\ users[user].email = last.form.email
          /\ \A pwd \in Passwords \ {last.form.pwd} :
                verify_credentials(users, last.form.username, pwd) = None
    /\ \A username \in RegNames, pwd \in Passwords :
          (\A i \in UserIds : users[i].username # username)
             => verify_credentials(users, username, pwd) = None
    /\ last.route = "login" /\ last.cu = None =>
          last.logged_in = verify_credentials(users, last.form.username, last.form.pwd)

\* a registered user has logged in
C9_Witness ==
    /\ last.route = "login" /\ last.logged_in # None
    /\ users[last.logged_in].username = last.form.username

----------------------------------------------------------------------------
(* Properties of the profile editor *)

\* a POST of the profile form by a logged-in user has just been answered
EditStep ==
    /\ clock' = clock
    /\ last'.route = "edit_profile" /\ last'.cu # None
    /\ last'.form.username # ""

\* the submitted username is the username of another user
TakenByOther(u, cu, username) ==
    \E i \in DOMAIN u : i # cu /\ u[i].username = username

C14_UniqueUsernames ==
    \A i, j \in UserIds : i # j => users[i].username # users[j].username

C14_TakenRejectedStep ==
    (EditStep /\ TakenByOther(users, last'.cu, last'.form.username))
    => /\ last'.status = "render:edit_profile"
       /\ users'[last'.cu].username = users[last'.cu].username
       /\ users'[last'.cu].about_me = users[last'.cu].about_me

C14_OwnNameAcceptedStep ==
    (/\ EditStep
     /\ last'.form.username = users[last'.cu].username
     /\ TextLen(last'.form.about_me) <= AboutMeMax)
    => /\ last'.status = "redirect:edit_profile"
       /\ users'[last'.cu].username = users[last'.cu].username
       /\ users'[last'.cu].about_me = last'.form.about_me

C14_IdentityKeptStep ==
    (clock' = clock /\ last'.route = "edit_profile")
    => /\ Len(users') = Len(users)
       /\ \A i \in UserIds :
             /\ users'[i].id = users[i].id
             /\ users'[i].email = users[i].email
             /\ users'[i].pwd_hash = users[i].pwd_hash

\* C14: after any sequence of register and edit_profile requests no two
\* users share a username; an edit to the username of another user is
\* rejected and changes neither username nor about_me; an edit that keeps the
\* user's own username is accepted; edit_profile never changes the id, the
\* email or the password hash of a user.
C14_EditKeepsUsernamesUnique ==
    /\ []C14_UniqueUsernames
    /\ [][C14_TakenRejectedStep]_vars
    /\ [][C14_OwnNameAcceptedStep]_vars
    /\ [][C14_IdentityKeptStep]_vars

\* a user has asked for the username of another user and was refused, after
\* an accepted edit had renamed a user to carol
C14_Witness ==
    /\ last.route = "edit_profile" /\ last.cu # None
    /\ last.status = "render:edit_profile"
    /\ TextLen(last.form.about_me) <= AboutMeMax
    /\ TakenByOther(users, last.cu, last.form.username)
    /\ \E i \in UserIds : users[i].username = "carol"

============================================================================
